---- MODULE Spec2Model ----
(***************************************************************************)
(* Model of the pair-trading AutoTrader of src/autotrader.cc.              *)
(*                                                                         *)
(* The source file holds two builds of the same engine: the Bollinger-band *)
(* build (lines 1-277) and the decaying-extremum build (lines 279-549).    *)
(* The variable "variant" says which build is running; it is fixed at      *)
(* construction.  Every bus callback is one atomic action (the engine is   *)
(* single threaded and each handler runs to completion).                   *)
(***************************************************************************)
EXTENDS Integers, Sequences, FiniteSets, TLC

(***************************************************************************)
(* Program constants.                                                      *)
(***************************************************************************)
LOT_SIZE == 10
LOT_SIZE_DECAY == 20
POSITION_LIMIT == 100
TICK_SIZE_IN_CENTS == 100
WINDOW_SIZE == 20
BOLLINGER_BONUS == 3
DECAY_BONUS == 2
MAXIMUM_ASK == 2147483647
MINIMUM_BID == 1

(***************************************************************************)
(* The float thresholds.  A ratio is the float quotient of two integers    *)
(* below 2^24, which are exact as floats, so the quotient is the rational  *)
(* n/d rounded to the nearest float.  Comparing it with a float constant F *)
(* is comparing n/d with the rounding boundary next to F:                  *)
(*   0.995f = 16693330 / 2^24 (even mantissa, ulp 2^-24):                  *)
(*            float(n/d) < 0.995f  iff  n/d <  33386659 / 2^25             *)
(*   1.005f = 8430551 / 2^23  (odd mantissa, ulp 2^-23):                   *)
(*            float(n/d) > 1.005f  iff  n/d >= 16861103 / 2^24             *)
(***************************************************************************)
BUY_RATIO_NUM == 33386659
BUY_RATIO_DEN == 33554432
SELL_RATIO_NUM == 16861103
SELL_RATIO_DEN == 16777216

(***************************************************************************)
(* Bounds of the model.                                                    *)
(***************************************************************************)
MaxId == 3
RaceMaxId == 6
MidMaxId == 1
FireMaxId == 6
ClampMaxId == 7
ClampFill == 10
WarmMaxId == 2
WarmMaxSamples == 22
MaxSamples == 3
PartialFill == 5

Variants == {"bollinger", "decay"}
Instruments == {"ETF", "FUTURE"}
Ids == 0..(MaxId + RaceMaxId + 2)

\* Top-of-book quotes <<bidPrices[0], askPrices[0]>> the bus may deliver.
FutureQuotes == {<<200, 200>>}
EtfQuotes == {<<100, 100>>, <<200, 200>>, <<300, 300>>}

(***************************************************************************)
(* State.  The engine's members keep their names.  ratios is the sliding   *)
(* window, oldest sample first; a sample is kept as its arrival number     *)
(* (the n-th ratio handed to bollingerBands is n), not as its float.       *)
(* bandsSet says whether bollingerBands has assigned the two bands yet:    *)
(* the float mean and deviation of the window are not computed, a band     *)
(* comparison after they are assigned may go either way.                   *)
(* maxRatio and minRatio are floats, see Float below.                      *)
(* sent is the list of commands the last handler gave to the bus, event    *)
(* the callback that ran last, and unfilled the volume the exchange may    *)
(* still fill of every order the engine tracks.                            *)
(***************************************************************************)
VARIABLES variant, mAskId, mBidId, mAsks, mBids, mPosition, mNextMessageId,
          midpointETF, midpointFuture, ratios, bandsSet, maxRatio,
          minRatio, sent, unfilled, event

vars == <<variant, mAskId, mBidId, mAsks, mBids, mPosition, mNextMessageId,
          midpointETF, midpointFuture, ratios, bandsSet, maxRatio,
          minRatio, sent, unfilled, event>>

orderState == <<mAskId, mBidId, mAsks, mBids>>
signalState == <<ratios, bandsSet, maxRatio, minRatio>>
midpoints == <<midpointETF, midpointFuture>>

Abs(x) == IF x < 0 THEN -x ELSE x

(***************************************************************************)
(* a/b < c/d for naturals with b > 0 and d > 0, by comparing the integer   *)
(* parts and then the inverted remainders, so that no product is formed.   *)
(***************************************************************************)
RECURSIVE FracLess(_, _, _, _)
FracLess(a, b, c, d) ==
  LET qa == a \div b
      qc == c \div d
      ra == a % b
      rc == c % d
  IN IF qa # qc THEN qa < qc
     ELSE IF rc = 0 THEN FALSE
     ELSE IF ra = 0 THEN TRUE
     ELSE FracLess(d, rc, b, ra)

(***************************************************************************)
(* float ratio = (float)midpointETF / (float)midpointFuture.               *)
(* n/0 is +infinity for n > 0 and NaN for n = 0; every comparison with NaN *)
(* is false.                                                               *)
(***************************************************************************)
Ratio(etf, fut) == [n |-> etf, d |-> fut]
IsNaN(r) == r.n = 0 /\ r.d = 0
IsInf(r) == r.n > 0 /\ r.d = 0
IsFinite(r) == r.d > 0

RatioLE1(r) == IsFinite(r) /\ r.n <= r.d
RatioGE1(r) == IsInf(r) \/ (IsFinite(r) /\ r.n >= r.d)
RatioLtBuy(r) == IsFinite(r) /\ FracLess(r.n, r.d, BUY_RATIO_NUM, BUY_RATIO_DEN)
RatioGtSell(r) ==
  IsInf(r) \/ (IsFinite(r) /\ ~FracLess(r.n, r.d, SELL_RATIO_NUM, SELL_RATIO_DEN))

(***************************************************************************)
(* setMidpoint: the new values of midpointETF and midpointFuture.          *)
(***************************************************************************)
\* Faulty variants of RoundedMid: one that truncates to the tick after adding
\* the half tick, one that adds the half tick to an aligned mid too.
RoundedMid_Truncates(bidPrice, askPrice) ==
  LET m == (askPrice + bidPrice) \div 2
  IN IF m % 100 # 0 THEN ((m + 50) \div 100) * 100 ELSE m

RoundedMid_AlwaysAdds(bidPrice, askPrice) ==
  ((askPrice + bidPrice) \div 2) + 50

RoundedMid(bidPrice, askPrice) ==
  LET m == (askPrice + bidPrice) \div 2
  IN IF m % 100 # 0 THEN m + 50 ELSE m

setMidpoint(instrument, bidPrice, askPrice) ==
  IF bidPrice = 0 \/ askPrice = 0
  THEN [etf |-> midpointETF, fut |-> midpointFuture]
  ELSE [etf |-> IF instrument = "ETF" THEN RoundedMid(bidPrice, askPrice)
                ELSE midpointETF,
        fut |-> IF instrument = "FUTURE" THEN RoundedMid(bidPrice, askPrice)
                ELSE midpointFuture]

(***************************************************************************)
(* bollingerBands: the window grows to WINDOW_SIZE samples; a call that    *)
(* finds it full evicts the oldest sample, appends, and assigns the bands. *)
(***************************************************************************)
NextSample(window) ==
  IF window = << >> THEN 1 ELSE window[Len(window)] + 1

\* A faulty bollingerBands that assigns the bands from a window that is not
\* full yet.
bollingerBands_EarlyBands(window, set) ==
  IF Len(window) < WINDOW_SIZE
  THEN [ratios |-> Append(window, NextSample(window)), set |-> TRUE]
  ELSE [ratios |-> Append(Tail(window), NextSample(window)), set |-> TRUE]

bollingerBands(window, set) ==
  IF Len(window) < WINDOW_SIZE
  THEN [ratios |-> Append(window, NextSample(window)), set |-> set]
  ELSE [ratios |-> Append(Tail(window), NextSample(window)), set |-> TRUE]

\* Outcomes of (ratio < lowBollingerBand) or (ratio > highBollingerBand):
\* either once bollingerBands has assigned the bands.  Before that the
\* bands hold their initial values, for which no ratio is beyond a band.
UnsetBandOutcomes == {FALSE}
BandOutcomes(set) == IF set THEN BOOLEAN ELSE UnsetBandOutcomes

(***************************************************************************)
(* Floats of the decaying-extremum build.  maxRatio and minRatio hold a    *)
(* ratio n/d that was decayed k times: n/d * (1 - DECAY_RATE)^k for        *)
(* maxRatio and n/d * (1 + DECAY_RATE)^k for minRatio, with DECAY_RATE =   *)
(* 1/10000.  The quotes of the model give ratios that differ by more than  *)
(* MaxId decays, so an order between a ratio and a decayed ratio follows   *)
(* from the order of the two undecayed ratios.                             *)
(***************************************************************************)
Float(n, d, k) == [n |-> n, d |-> d, k |-> k]

\* ratio > maxRatio
GtMax(r, m) ==
  IF IsNaN(r) \/ IsNaN(m) \/ IsInf(m) THEN FALSE
  ELSE IF IsInf(r) THEN TRUE
  ELSE IF m.k = 0 THEN FracLess(m.n, m.d, r.n, r.d)
  ELSE ~FracLess(r.n, r.d, m.n, m.d)

\* ratio < minRatio
LtMin(r, m) ==
  IF IsNaN(r) \/ IsNaN(m) \/ IsInf(r) THEN FALSE
  ELSE IF IsInf(m) THEN TRUE
  ELSE IF m.k = 0 THEN FracLess(r.n, r.d, m.n, m.d)
  ELSE ~FracLess(m.n, m.d, r.n, r.d)

\* maxRatio >= DECAY_SELL_LIMIT; 1.002f = 8405385 / 2^23, so a float x/y is
\* at least 1.002f iff x/y > 16810769 / 2^24.
DECAY_SELL_LIMIT_NUM == 16810769
DECAY_SELL_LIMIT_DEN == 16777216
DECAY_RATE_INV == 10000

GeSellLimit(m) ==
  IF IsNaN(m) THEN FALSE
  ELSE IF IsInf(m) THEN TRUE
  ELSE FracLess(DECAY_SELL_LIMIT_NUM, DECAY_SELL_LIMIT_DEN,
                m.n * (DECAY_RATE_INV - m.k), m.d * DECAY_RATE_INV)

\* minRatio <= DECAY_BUY_LIMIT; 0.998f = 16743662 / 2^24, so a float x/y is
\* at most 0.998f iff x/y <= 33487325 / 2^25.
DECAY_BUY_LIMIT_NUM == 33487325
DECAY_BUY_LIMIT_DEN == 33554432

LeBuyLimit(m) ==
  IF IsNaN(m) \/ IsInf(m) THEN FALSE
  ELSE ~FracLess(DECAY_BUY_LIMIT_NUM, DECAY_BUY_LIMIT_DEN,
                 m.n * DECAY_RATE_INV, m.d * (DECAY_RATE_INV - m.k))

\* maxRatio - (maxRatio * DECAY_RATE): infinity minus infinity is NaN.
DecayMax(m) ==
  IF IsInf(m) THEN Float(0, 0, 0)
  ELSE IF m.n = 0 THEN m
  ELSE Float(m.n, m.d, m.k + 1)

\* minRatio + (minRatio * DECAY_RATE)
DecayMin(m) ==
  IF IsNaN(m) \/ IsInf(m) \/ m.n = 0 THEN m
  ELSE Float(m.n, m.d, m.k + 1)

(***************************************************************************)
(* The clamp both builds apply to the volume of an order.                  *)
(***************************************************************************)
\* A faulty ClampVolume that cuts the volume of a SELL only.
ClampVolume_SellOnly(side, volume, position) ==
  IF side = "SELL" /\ position - volume <= -POSITION_LIMIT
  THEN POSITION_LIMIT - Abs(position)
  ELSE volume

ClampVolume(side, volume, position) ==
  IF side = "SELL" /\ position - volume <= -POSITION_LIMIT
  THEN POSITION_LIMIT - Abs(position)
  ELSE IF side = "BUY" /\ position + volume >= POSITION_LIMIT
  THEN POSITION_LIMIT - Abs(position)
  ELSE volume

(***************************************************************************)
(* setVolume of the decaying-extremum build: the volume and the new        *)
(* extrema.                                                                *)
(***************************************************************************)
setVolume(r, side, mx, mn, position) ==
  LET upMax == GtMax(r, mx)
      upMin == LtMin(r, mn)
      mx1 == IF upMax THEN Float(r.n, r.d, 0)
             ELSE IF GeSellLimit(mx) THEN DecayMax(mx) ELSE mx
      mn1 == IF upMin THEN Float(r.n, r.d, 0)
             ELSE IF LeBuyLimit(mn) THEN DecayMin(mn) ELSE mn
      volume == IF upMax \/ upMin THEN LOT_SIZE_DECAY * DECAY_BONUS
                ELSE LOT_SIZE_DECAY
  IN [volume |-> ClampVolume(side, volume, position), max |-> mx1, min |-> mn1]

\* The volume of the Bollinger build, lines 116-126 and 137-147.
BollingerVolume(side, bonus, position) ==
  ClampVolume(side, IF bonus THEN LOT_SIZE * BOLLINGER_BONUS ELSE LOT_SIZE,
              position)

(***************************************************************************)
(* Commands given to the bus and the record of the last callback.          *)
(***************************************************************************)
InsertOrder(id, side, price, volume) ==
  [cmd |-> "insert", id |-> id, side |-> side, price |-> price, volume |-> volume]
CancelOrder(id) ==
  [cmd |-> "cancel", id |-> id, side |-> "NONE", price |-> 0, volume |-> 0]
\* A faulty HedgeOrder that carries the id issued last, not a new one.
HedgeOrder_StaleId(id, side, price, volume) ==
  [cmd |-> "hedge", id |-> id - 1, side |-> side, price |-> price,
   volume |-> volume]
HedgeOrder(id, side, price, volume) ==
  [cmd |-> "hedge", id |-> id, side |-> side, price |-> price, volume |-> volume]

\* tracked and slot say which membership set and which slot held the id of
\* the callback when the callback started; volume is the filled volume of a
\* fill and the remaining volume of a status update.
TrackedBy(id) ==
  IF id \in mAsks THEN "ask" ELSE IF id \in mBids THEN "bid" ELSE "none"
SlotOf(id) ==
  IF id # 0 /\ id = mAskId THEN "ask"
  ELSE IF id # 0 /\ id = mBidId THEN "bid" ELSE "none"

BookEvent(instrument, bidPrice, askPrice) ==
  [kind |-> "book", instrument |-> instrument, bid |-> bidPrice,
   ask |-> askPrice, id |-> 0, volume |-> 0, tracked |-> "none",
   slot |-> "none"]
OrderEvent(kind, id, volume) ==
  [kind |-> kind, instrument |-> "NONE", bid |-> 0, ask |-> 0, id |-> id,
   volume |-> volume, tracked |-> TrackedBy(id), slot |-> SlotOf(id)]
NoEvent ==
  [kind |-> "none", instrument |-> "NONE", bid |-> 0, ask |-> 0, id |-> 0,
   volume |-> 0, tracked |-> "none", slot |-> "none"]

\* f without the key id, and f with id mapped to v.
Without(f, id) == [x \in DOMAIN f \ {id} |-> f[x]]
With(f, id, v) == [x \in DOMAIN f \cup {id} |-> IF x = id THEN v ELSE f[x]]

(***************************************************************************)
(* Construction: AutoTrader::AutoTrader and the member initialisers.       *)
(***************************************************************************)
Init ==
  /\ variant \in Variants
  /\ mAskId = 0
  /\ mBidId = 0
  /\ mAsks = {}
  /\ mBids = {}
  /\ mPosition = 0
  /\ mNextMessageId = 1
  /\ midpointETF = 0
  /\ midpointFuture = 0
  /\ ratios = << >>
  /\ bandsSet = FALSE
  /\ maxRatio = Float(1, 1, 0)
  /\ minRatio = Float(1, 1, 0)
  /\ sent = << >>
  /\ unfilled = << >>
  /\ event = NoEvent

(***************************************************************************)
(* The conditions of OrderBookMessageHandler: an order is cancelled when   *)
(* the opportunity has expired, and inserted when one exists.              *)
(***************************************************************************)
\* A faulty CancelAsk that keeps a resting ask at a ratio of exactly 1.
CancelAsk_Strict(askId, ratio) ==
  askId # 0 /\ RatioLE1(ratio) /\ ratio.n # ratio.d

CancelAsk(askId, ratio) == askId # 0 /\ RatioLE1(ratio)
CancelBid(bidId, ratio) == bidId # 0 /\ RatioGE1(ratio)
\* A faulty BuySignal that also fires at a ratio equal to 199/200.
BuySignal_NonStrict(bidId, ratio, position) ==
  /\ bidId = 0
  /\ RatioLtBuy(ratio) \/ (IsFinite(ratio) /\ 200 * ratio.n = 199 * ratio.d)
  /\ position < POSITION_LIMIT

BuySignal(bidId, ratio, position) ==
  bidId = 0 /\ RatioLtBuy(ratio) /\ position < POSITION_LIMIT

\* Faulty variants of SellSignal: one that does not look at the ask slot,
\* one that also fires at a ratio equal to 201/200.
SellSignal_NoSlotCheck(askId, ratio, position) ==
  RatioGtSell(ratio) /\ position > -POSITION_LIMIT

SellSignal_NonStrict(askId, ratio, position) ==
  /\ askId = 0
  /\ RatioGtSell(ratio) \/ (IsFinite(ratio) /\ 200 * ratio.n = 201 * ratio.d)
  /\ position > -POSITION_LIMIT

SellSignal(askId, ratio, position) ==
  askId = 0 /\ RatioGtSell(ratio) /\ position > -POSITION_LIMIT

(***************************************************************************)
(* OrderBookMessageHandler.                                                *)
(***************************************************************************)
OrderBookMessageHandler(instrument, bidPrice, askPrice) ==
  LET mids == setMidpoint(instrument, bidPrice, askPrice)
      ratio == Ratio(mids.etf, mids.fut)
      cancelAsk == CancelAsk(mAskId, ratio)
      askId1 == IF cancelAsk THEN 0 ELSE mAskId
      cancelBid == CancelBid(mBidId, ratio)
      bidId1 == IF cancelBid THEN 0 ELSE mBidId
      cancels == (IF cancelAsk THEN <<CancelOrder(mAskId)>> ELSE << >>)
                 \o (IF cancelBid THEN <<CancelOrder(mBidId)>> ELSE << >>)
      bands == IF variant = "bollinger"
               THEN bollingerBands(ratios, bandsSet)
               ELSE [ratios |-> ratios, set |-> bandsSet]
      buy == BuySignal(bidId1, ratio, mPosition)
      sell == SellSignal(askId1, ratio, mPosition)
      buyId == mNextMessageId
      sellId == IF buy THEN mNextMessageId + 1 ELSE mNextMessageId
      nextId == IF sell THEN sellId + 1 ELSE sellId
  IN
  /\ event' = BookEvent(instrument, bidPrice, askPrice)
  /\ midpointETF' = mids.etf
  /\ midpointFuture' = mids.fut
  /\ UNCHANGED <<variant, mPosition>>
  /\ IF instrument = "ETF"
     THEN
       /\ \E lowHit \in (IF buy /\ variant = "bollinger"
                         THEN BandOutcomes(bands.set) ELSE {FALSE}),
             highHit \in (IF sell /\ variant = "bollinger"
                          THEN BandOutcomes(bands.set) ELSE {FALSE}) :
            LET sv1 == IF buy /\ variant = "decay"
                       THEN setVolume(ratio, "BUY", maxRatio, minRatio, mPosition)
                       ELSE [volume |-> 0, max |-> maxRatio, min |-> minRatio]
                buyVolume == IF variant = "decay" THEN sv1.volume
                             ELSE BollingerVolume("BUY", lowHit, mPosition)
                sv2 == IF sell /\ variant = "decay"
                       THEN setVolume(ratio, "SELL", sv1.max, sv1.min, mPosition)
                       ELSE [volume |-> 0, max |-> sv1.max, min |-> sv1.min]
                sellVolume == IF variant = "decay" THEN sv2.volume
                              ELSE BollingerVolume("SELL", highHit, mPosition)
                unfilled1 == IF buy THEN With(unfilled, buyId, buyVolume)
                             ELSE unfilled
            IN
            /\ mBidId' = IF buy THEN buyId ELSE bidId1
            /\ mBids' = IF buy THEN mBids \cup {buyId} ELSE mBids
            /\ mAskId' = IF sell THEN sellId ELSE askId1
            /\ mAsks' = IF sell THEN mAsks \cup {sellId} ELSE mAsks
            /\ mNextMessageId' = nextId
            /\ ratios' = bands.ratios
            /\ bandsSet' = bands.set
            /\ maxRatio' = sv2.max
            /\ minRatio' = sv2.min
            /\ unfilled' = IF sell THEN With(unfilled1, sellId, sellVolume)
                           ELSE unfilled1
            /\ sent' = cancels
                 \o (IF buy
                     THEN <<InsertOrder(buyId, "BUY", askPrice, buyVolume)>>
                     ELSE << >>)
                 \o (IF sell
                     THEN <<InsertOrder(sellId, "SELL", bidPrice, sellVolume)>>
                     ELSE << >>)
     ELSE
       /\ sent' = << >>
       /\ UNCHANGED <<orderState, mNextMessageId, signalState, unfilled>>

(***************************************************************************)
(* OrderFilledMessageHandler.  The exchange fills at most the volume that  *)
(* is left of an order.                                                    *)
(***************************************************************************)
HedgePrice(side) ==
  IF side = "BUY"
  THEN (MAXIMUM_ASK \div TICK_SIZE_IN_CENTS) * TICK_SIZE_IN_CENTS
  ELSE MINIMUM_BID

\* A faulty FilledPosition with the signs swapped.
FilledPosition_Swapped(origin, position, volume) ==
  IF origin = "ask" THEN position + volume ELSE position - volume

\* The position after a fill of an ask (the engine sold) or of a bid.
FilledPosition(origin, position, volume) ==
  IF origin = "ask" THEN position - volume ELSE position + volume

\* A faulty FillOrigin that looks the id up in the slots, which a cancel has
\* emptied already, and not in the membership sets.
FillOrigin_BySlot(clientOrderId) ==
  IF clientOrderId # 0 /\ clientOrderId = mAskId THEN "ask"
  ELSE IF clientOrderId # 0 /\ clientOrderId = mBidId THEN "bid"
  ELSE "none"

\* The side a fill is attributed to: mAsks.count first, then mBids.count.
FillOrigin(clientOrderId) ==
  IF clientOrderId \in mAsks THEN "ask"
  ELSE IF clientOrderId \in mBids THEN "bid"
  ELSE "none"

OrderFilledMessageHandler(clientOrderId, volume) ==
  /\ clientOrderId \in DOMAIN unfilled => volume <= unfilled[clientOrderId]
  /\ event' = OrderEvent("filled", clientOrderId, volume)
  /\ IF FillOrigin(clientOrderId) = "ask"
     THEN /\ mPosition' = FilledPosition("ask", mPosition, volume)
          /\ sent' = <<HedgeOrder(mNextMessageId, "BUY", HedgePrice("BUY"),
                                   volume)>>
          /\ mNextMessageId' = mNextMessageId + 1
     ELSE IF FillOrigin(clientOrderId) = "bid"
     THEN /\ mPosition' = FilledPosition("bid", mPosition, volume)
          /\ sent' = <<HedgeOrder(mNextMessageId, "SELL", HedgePrice("SELL"),
                                   volume)>>
          /\ mNextMessageId' = mNextMessageId + 1
     ELSE /\ sent' = << >>
          /\ UNCHANGED <<mPosition, mNextMessageId>>
  /\ unfilled' = IF clientOrderId \in DOMAIN unfilled
                 THEN [unfilled EXCEPT ![clientOrderId] = @ - volume]
                 ELSE unfilled
  /\ UNCHANGED <<variant, orderState, midpoints, signalState>>

(***************************************************************************)
(* OrderStatusMessageHandler: the new slots and membership sets.           *)
(***************************************************************************)
\* Faulty variants of StatusUpdate: one that forgets mBids.erase, one that
\* empties the ask slot without comparing the id, one that does not look at
\* the remaining volume.
StatusUpdate_KeepsBids(clientOrderId, remainingVolume) ==
  IF remainingVolume = 0
  THEN [askId |-> IF clientOrderId = mAskId THEN 0 ELSE mAskId,
        bidId |-> IF clientOrderId # mAskId /\ clientOrderId = mBidId
                  THEN 0 ELSE mBidId,
        asks |-> mAsks \ {clientOrderId},
        bids |-> mBids]
  ELSE [askId |-> mAskId, bidId |-> mBidId, asks |-> mAsks, bids |-> mBids]

StatusUpdate_ClearsAsk(clientOrderId, remainingVolume) ==
  IF remainingVolume = 0
  THEN [askId |-> 0,
        bidId |-> mBidId,
        asks |-> mAsks \ {clientOrderId},
        bids |-> mBids \ {clientOrderId}]
  ELSE [askId |-> mAskId, bidId |-> mBidId, asks |-> mAsks, bids |-> mBids]

StatusUpdate_IgnoresRemaining(clientOrderId, remainingVolume) ==
  [askId |-> IF clientOrderId = mAskId THEN 0 ELSE mAskId,
   bidId |-> IF clientOrderId # mAskId /\ clientOrderId = mBidId
             THEN 0 ELSE mBidId,
   asks |-> mAsks \ {clientOrderId},
   bids |-> mBids \ {clientOrderId}]

\* One more: a StatusUpdate that erases the id from the sets and empties the
\* ask slot, and leaves the bid slot.
StatusUpdate_KeepsBidSlot(clientOrderId, remainingVolume) ==
  IF remainingVolume = 0
  THEN [askId |-> IF clientOrderId = mAskId THEN 0 ELSE mAskId,
        bidId |-> mBidId,
        asks |-> mAsks \ {clientOrderId},
        bids |-> mBids \ {clientOrderId}]
  ELSE [askId |-> mAskId, bidId |-> mBidId, asks |-> mAsks, bids |-> mBids]

StatusUpdate(clientOrderId, remainingVolume) ==
  IF remainingVolume = 0
  THEN [askId |-> IF clientOrderId = mAskId THEN 0 ELSE mAskId,
        bidId |-> IF clientOrderId # mAskId /\ clientOrderId = mBidId
                  THEN 0 ELSE mBidId,
        asks |-> mAsks \ {clientOrderId},
        bids |-> mBids \ {clientOrderId}]
  ELSE [askId |-> mAskId, bidId |-> mBidId, asks |-> mAsks, bids |-> mBids]

ApplyStatus(clientOrderId, remainingVolume) ==
  LET s == StatusUpdate(clientOrderId, remainingVolume)
  IN /\ mAskId' = s.askId
     /\ mBidId' = s.bidId
     /\ mAsks' = s.asks
     /\ mBids' = s.bids
     /\ unfilled' = [x \in s.asks \cup s.bids |-> unfilled[x]]

OrderStatusMessageHandler(clientOrderId, remainingVolume) ==
  /\ event' = OrderEvent("status", clientOrderId, remainingVolume)
  /\ ApplyStatus(clientOrderId, remainingVolume)
  /\ sent' = << >>
  /\ UNCHANGED <<variant, mPosition, mNextMessageId, midpoints, signalState>>

(***************************************************************************)
(* ErrorMessageHandler.                                                    *)
(***************************************************************************)
ErrorMessageHandler(clientOrderId) ==
  /\ event' = OrderEvent("error", clientOrderId, 0)
  /\ IF clientOrderId # 0
     THEN ApplyStatus(clientOrderId, 0)
     ELSE UNCHANGED <<orderState, unfilled>>
  /\ sent' = << >>
  /\ UNCHANGED <<variant, mPosition, mNextMessageId, midpoints, signalState>>

(***************************************************************************)
(* The handlers that only log.                                             *)
(***************************************************************************)
\* A faulty HedgeFilledMessageHandler that adds the hedged lots to mPosition.
HedgeFilledMessageHandler_CountsHedge(clientOrderId, volume) ==
  /\ event' = [OrderEvent("hedgeFilled", clientOrderId, volume)
                 EXCEPT !.tracked = "none", !.slot = "none"]
  /\ sent' = << >>
  /\ mPosition' = mPosition + volume
  /\ UNCHANGED <<variant, orderState, mNextMessageId, midpoints,
                 signalState, unfilled>>

HedgeFilledMessageHandler(clientOrderId, volume) ==
  /\ event' = [OrderEvent("hedgeFilled", clientOrderId, volume)
                 EXCEPT !.tracked = "none", !.slot = "none"]
  /\ sent' = << >>
  /\ UNCHANGED <<variant, orderState, mPosition, mNextMessageId, midpoints,
                 signalState, unfilled>>

TradeTicksMessageHandler(instrument, bidPrice, askPrice) ==
  /\ event' = [BookEvent(instrument, bidPrice, askPrice) EXCEPT !.kind = "ticks"]
  /\ sent' = << >>
  /\ UNCHANGED <<variant, orderState, mPosition, mNextMessageId, midpoints,
                 signalState, unfilled>>

DisconnectHandler ==
  /\ event' = [NoEvent EXCEPT !.kind = "disconnect"]
  /\ sent' = << >>
  /\ UNCHANGED <<variant, orderState, mPosition, mNextMessageId, midpoints,
                 signalState, unfilled>>

(***************************************************************************)
(* The callbacks the bus delivers.  The guards on mNextMessageId' and on   *)
(* the samples bound the run; they are not part of the handlers.           *)
(***************************************************************************)
FillVolumes(id) ==
  IF id \in DOMAIN unfilled
  THEN {v \in {PartialFill, unfilled[id]} : v > 0}
  ELSE {PartialFill}

\* The ids the bus reports on: no order, every tracked order, and the id
\* issued last (a hedge, or an order that may have been dropped already).
IssuedIds == {0} \cup mAsks \cup mBids \cup {mNextMessageId - 1}

IdsLeft(maxId) == mNextMessageId' <= maxId + 1
SamplesLeft(maxSamples) ==
  variant = "bollinger" => NextSample(ratios) <= maxSamples

EtfBook ==
  \E q \in EtfQuotes :
    /\ SamplesLeft(MaxSamples)
    /\ OrderBookMessageHandler("ETF", q[1], q[2])
    /\ IdsLeft(MaxId)
FutureBook ==
  \E q \in FutureQuotes : OrderBookMessageHandler("FUTURE", q[1], q[2])
Filled ==
  \E id \in IssuedIds : \E v \in FillVolumes(id) :
    OrderFilledMessageHandler(id, v) /\ IdsLeft(MaxId)
Status ==
  \E id \in IssuedIds : \E r \in {0, PartialFill} :
    OrderStatusMessageHandler(id, r)
Error ==
  \E id \in IssuedIds : ErrorMessageHandler(id)
HedgeFilled ==
  \E id \in {mNextMessageId - 1} : HedgeFilledMessageHandler(id, PartialFill)
TradeTicks ==
  \E q \in FutureQuotes : TradeTicksMessageHandler("FUTURE", q[1], q[2])
Disconnect == DisconnectHandler

Next ==
  \/ EtfBook
  \/ FutureBook
  \/ Filled
  \/ Status
  \/ Error
  \/ HedgeFilled
  \/ TradeTicks
  \/ Disconnect

Spec == Init /\ [][Next]_vars

(***************************************************************************)
(* SpecRace: the bus delivers snapshots with falling and recovering ratios *)
(* and complete fills only, so that a run can issue RaceMaxId ids.         *)
(***************************************************************************)
RaceEtfQuotes == {<<100, 102>>, <<100, 100>>, <<2, 2>>, <<200, 200>>}

RaceEtfBook ==
  \E q \in RaceEtfQuotes :
    /\ OrderBookMessageHandler("ETF", q[1], q[2])
    /\ IdsLeft(RaceMaxId)
RaceFilled ==
  \E id \in mAsks \cup mBids :
    /\ unfilled[id] > 0
    /\ OrderFilledMessageHandler(id, unfilled[id])
    /\ IdsLeft(RaceMaxId)

RaceNext ==
  \/ RaceEtfBook
  \/ FutureBook
  \/ RaceFilled

RaceInit == Init /\ variant = "decay"

SpecRace == RaceInit /\ [][RaceNext]_vars

(***************************************************************************)
(* SpecMid: snapshots of both instruments with every pair of prices of     *)
(* MidPrices, aligned to the tick or not, and zero for an empty side.      *)
(***************************************************************************)
MidPrices == {0, 100, 101, 200}

MidEtfBook ==
  \E b \in MidPrices, a \in MidPrices :
    /\ SamplesLeft(MaxSamples)
    /\ OrderBookMessageHandler("ETF", b, a)
    /\ IdsLeft(MidMaxId)
MidFutureBook ==
  \E b \in MidPrices, a \in MidPrices : OrderBookMessageHandler("FUTURE", b, a)

MidNext ==
  \/ MidEtfBook
  \/ MidFutureBook

SpecMid == Init /\ [][MidNext]_vars

(***************************************************************************)
(* SpecFire: ETF snapshots whose ratio to a future midpoint of 200 is      *)
(* 0.99, 0.995, 1, 1.005 and 1.01 (stored midpoints 198 to 202), and       *)
(* complete fills, so that a run meets both thresholds exactly and can     *)
(* bring the position to either limit.                                     *)
(***************************************************************************)
FireEtfQuotes ==
  {<<148, 148>>, <<149, 149>>, <<200, 200>>, <<151, 151>>, <<152, 152>>}

FireEtfBook ==
  \E q \in FireEtfQuotes :
    /\ SamplesLeft(MaxSamples)
    /\ OrderBookMessageHandler("ETF", q[1], q[2])
    /\ IdsLeft(FireMaxId)
FireFilled ==
  \E id \in mAsks \cup mBids :
    /\ unfilled[id] > 0
    /\ OrderFilledMessageHandler(id, unfilled[id])
    /\ IdsLeft(FireMaxId)

FireNext ==
  \/ FireEtfBook
  \/ FutureBook
  \/ FireFilled

SpecFire == Init /\ [][FireNext]_vars

(***************************************************************************)
(* SpecClamp: the decaying-extremum build with snapshots of ratio 0.99, 1  *)
(* and 1.01 and fills of ClampFill lots or of all that is left of an       *)
(* order, so that orders are sent from positions close to either limit.    *)
(* The market of a run stays on one side of parity: a snapshot below it    *)
(* comes only while the engine is not short and tracks no ask, one above   *)
(* it only while the engine is not long and tracks no bid.                 *)
(***************************************************************************)
ClampEtfQuotes == {<<148, 148>>, <<200, 200>>, <<152, 152>>}

OneSided(q) ==
  LET mid == RoundedMid(q[1], q[2])
  IN /\ mid < 200 => mPosition >= 0 /\ mAsks = {}
     /\ mid > 200 => mPosition <= 0 /\ mBids = {}

ClampEtfBook ==
  \E q \in ClampEtfQuotes :
    /\ OneSided(q)
    /\ OrderBookMessageHandler("ETF", q[1], q[2])
    /\ IdsLeft(ClampMaxId)
ClampFilled ==
  \E id \in mAsks \cup mBids :
    \E v \in {x \in {ClampFill, unfilled[id]} : x > 0 /\ x <= unfilled[id]} :
      /\ OrderFilledMessageHandler(id, v)
      /\ IdsLeft(ClampMaxId)

ClampNext ==
  \/ ClampEtfBook
  \/ FutureBook
  \/ ClampFilled

SpecClamp == RaceInit /\ [][ClampNext]_vars

(***************************************************************************)
(* SpecWarm: the Bollinger build with enough ETF snapshots to fill the     *)
(* window and evict from it.                                               *)
(***************************************************************************)
WarmEtfBook ==
  \E q \in EtfQuotes :
    /\ SamplesLeft(WarmMaxSamples)
    /\ OrderBookMessageHandler("ETF", q[1], q[2])
    /\ IdsLeft(WarmMaxId)

WarmNext ==
  \/ WarmEtfBook
  \/ FutureBook

WarmInit == Init /\ variant = "bollinger"

SpecWarm == WarmInit /\ [][WarmNext]_vars

TypeOK ==
  /\ variant \in Variants
  /\ mAskId \in Ids /\ mBidId \in Ids
  /\ mAsks \subseteq Ids /\ mBids \subseteq Ids
  /\ DOMAIN unfilled = mAsks \cup mBids

(***************************************************************************)
(* Claims.                                                                 *)
(***************************************************************************)
CancelsIn(cmds) == {cmds[i].id : i \in {j \in DOMAIN cmds : cmds[j].cmd = "cancel"}}
InsertsIn(cmds) == {cmds[i] : i \in {j \in DOMAIN cmds : cmds[j].cmd = "insert"}}
HedgesIn(cmds) == {cmds[i] : i \in {j \in DOMAIN cmds : cmds[j].cmd = "hedge"}}

\* C1: after every event the position stays within the position limit,
\* -POSITION_LIMIT <= mPosition <= POSITION_LIMIT, when the exchange never
\* fills more than the volume of an order.
C1_PositionWithinLimit ==
  -POSITION_LIMIT <= mPosition /\ mPosition <= POSITION_LIMIT

\* C2: at most one inserted BUY order and at most one inserted SELL order is
\* outstanding: each membership set holds at most one id.
C2_OneOutstandingPerSide ==
  Cardinality(mBids) <= 1 /\ Cardinality(mAsks) <= 1

\* C3: after a snapshot handler that sent a cancel for the resting ask or
\* bid, that side's slot still holds the id of the cancelled order.
C3_CancelKeepsSlot ==
  \A id \in CancelsIn(sent) :
    /\ id \in mAsks => mAskId = id
    /\ id \in mBids => mBidId = id

\* C4: an insert for a side is sent only when the slot of that side is
\* empty, and after the handler the slot holds the id of the command and the
\* id is in the membership set of that side and not in the other one.
C4_InsertFromEmptySlot ==
  [][\A c \in InsertsIn(sent') :
       /\ c.side = "BUY" =>
            /\ mBidId = 0
            /\ mBidId' = c.id
            /\ c.id \in mBids' /\ c.id \notin mAsks'
       /\ c.side = "SELL" =>
            /\ mAskId = 0
            /\ mAskId' = c.id
            /\ c.id \in mAsks' /\ c.id \notin mBids']_vars

\* A SELL order was inserted from the empty ask slot while an earlier BUY
\* order is still in the bid set.
C4_Witness ==
  /\ \E c \in InsertsIn(sent) : c.side = "SELL" /\ c.id = mAskId
  /\ mAskId \in mAsks /\ mAskId \notin mBids /\ mBids # {}

\* C5: after the error handler ran for an id other than 0, no slot and no
\* membership set holds the id, the slot that held it is empty, and the
\* position and the other slot and set are as before; an error with id 0
\* changes nothing.
C5_ErrorForcesEmpty ==
  [][event'.kind = "error" =>
       LET id == event'.id
       IN IF id = 0
          THEN UNCHANGED <<orderState, mPosition, mNextMessageId, midpoints>>
          ELSE /\ mAskId' # id /\ mBidId' # id
               /\ id \notin mAsks' /\ id \notin mBids'
               /\ mAskId = id => mAskId' = 0
               /\ mBidId = id => mBidId' = 0
               /\ mAskId # id => mAskId' = mAskId
               /\ mBidId # id => mBidId' = mBidId
               /\ mAsks' \ {id} = mAsks \ {id}
               /\ mBids' \ {id} = mBids \ {id}
               /\ mPosition' = mPosition]_vars

\* An error for the resting bid emptied the bid slot and dropped the id
\* from the bid set while an ask is in the ask set.
C5_Witness ==
  /\ event.kind = "error" /\ event.id # 0
  /\ event.slot = "bid" /\ event.tracked = "bid"
  /\ mBidId = 0 /\ event.id \notin mBids /\ mAsks # {}

\* C6: a status update with remaining volume 0 for an id held by no slot
\* and no membership set changes no slot, no membership set, not the
\* position, the midpoints or the id counter.
C6_StatusIdempotent ==
  [][(/\ event'.kind = "status" /\ event'.volume = 0
      /\ event'.id \notin mAsks \cup mBids
      /\ (event'.id = 0 \/ event'.id \notin {mAskId, mBidId}))
     => UNCHANGED <<orderState, mPosition, mNextMessageId, midpoints>>]_vars

\* A second status update with remaining volume 0 for an id that was
\* dropped, while a bid and an ask rest.
C6_Witness ==
  /\ event.kind = "status" /\ event.volume = 0 /\ event.id # 0
  /\ event.tracked = "none" /\ event.slot = "none"
  /\ mBidId # 0 /\ mAsks # {} /\ mPosition # 0

\* C7: a status update with remaining volume 0 empties the slot that holds
\* the id and removes the id from the membership set that holds it, and
\* leaves the other side alone; one with remaining volume above 0 changes no
\* slot and no membership set.
C7_StatusHandling ==
  [][event'.kind = "status" =>
       LET id == event'.id
       IN IF event'.volume = 0
          THEN /\ mAsks' = mAsks \ {id}
               /\ mBids' = mBids \ {id}
               /\ mAskId' = (IF mAskId = id THEN 0 ELSE mAskId)
               /\ mBidId' = (IF mBidId = id THEN 0 ELSE mBidId)
          ELSE UNCHANGED orderState]_vars

\* A status update with remaining volume 0 emptied the ask slot and the ask
\* set while a bid is in the bid set.
C7_Witness ==
  /\ event.kind = "status" /\ event.volume = 0
  /\ event.slot = "ask" /\ event.tracked = "ask"
  /\ mAskId = 0 /\ mAsks = {} /\ mBids # {}

\* C8: a fill of volume v for an id of the ask set lowers the position by v
\* and sends one BUY hedge of volume v at MAXIMUM_ASK rounded down to the
\* tick; a fill for an id of the bid set raises the position by v and sends
\* one SELL hedge of volume v at the floor price; slots and sets stay.
C8_FillHandling ==
  [][(event'.kind = "filled" /\ event'.tracked # "none") =>
       LET v == event'.volume
           h == sent'[1]
       IN /\ Len(sent') = 1
          /\ h.cmd = "hedge" /\ h.volume = v
          /\ UNCHANGED orderState
          /\ event'.tracked = "ask" =>
               /\ mPosition' = mPosition - v
               /\ h.side = "BUY"
               /\ h.price % TICK_SIZE_IN_CENTS = 0
               /\ h.price <= MAXIMUM_ASK
               /\ MAXIMUM_ASK - h.price < TICK_SIZE_IN_CENTS
          /\ event'.tracked = "bid" =>
               /\ mPosition' = mPosition + v
               /\ h.side = "SELL"
               /\ h.price = MINIMUM_BID]_vars

\* An ask of 20 lots was filled: the position is -20 and a BUY hedge of 20
\* lots went out.
C8_Witness ==
  /\ event.kind = "filled" /\ event.tracked = "ask" /\ event.volume = 20
  /\ mPosition = -20
  /\ \E h \in HedgesIn(sent) : h.side = "BUY" /\ h.volume = 20

\* C9: a snapshot with a zero best bid or best ask leaves both midpoints;
\* otherwise the midpoint of the instrument becomes m when m mod 100 = 0
\* and m + 50 when not, with m = floor((ask + bid) / 2), and the midpoint of
\* the other instrument stays.
C9_MidpointUpdate ==
  [][event'.kind = "book" =>
       LET b == event'.bid
           a == event'.ask
           m == (a + b) \div 2
           new == IF m % 100 = 0 THEN m ELSE m + 50
       IN IF b = 0 \/ a = 0
          THEN UNCHANGED midpoints
          ELSE IF event'.instrument = "ETF"
          THEN midpointETF' = new /\ midpointFuture' = midpointFuture
          ELSE midpointFuture' = new /\ midpointETF' = midpointETF]_vars

\* A raw mid of 101 was stored as 151 while the other midpoint is 100.
C9_Witness ==
  /\ event.kind = "book" /\ event.instrument = "ETF"
  /\ event.bid = 101 /\ event.ask = 101
  /\ midpointETF = 151 /\ midpointFuture = 100

\* The midpoint a snapshot stored, and twice its distance from the raw mid.
StoredMid == IF event.instrument = "ETF" THEN midpointETF ELSE midpointFuture
TwiceOff == Abs(2 * StoredMid - (event.bid + event.ask))
ValidBook == event.kind = "book" /\ event.bid # 0 /\ event.ask # 0

\* C10 as claimed: after any snapshot with non-zero best bid and best ask
\* the stored midpoint is a multiple of the tick that is at most half a
\* tick from the raw mid.
C10_MidpointTickRounded ==
  ValidBook =>
    /\ StoredMid % TICK_SIZE_IN_CENTS = 0
    /\ TwiceOff <= TICK_SIZE_IN_CENTS

\* C10 as amended: after a snapshot with non-zero best bid and best ask, if
\* floor((bid + ask) / 2) is a multiple of half a tick (as for prices that
\* are whole ticks) the stored midpoint is a multiple of the tick at most
\* half a tick from the raw mid; if not, it is floor((bid + ask) / 2) + 50
\* and no multiple of the tick.
C10_MidpointTickRoundedAligned ==
  ValidBook =>
    LET m == (event.bid + event.ask) \div 2
    IN IF m % 50 = 0
       THEN /\ StoredMid % TICK_SIZE_IN_CENTS = 0
            /\ TwiceOff <= TICK_SIZE_IN_CENTS
       ELSE /\ StoredMid = m + 50
            /\ StoredMid % TICK_SIZE_IN_CENTS # 0

\* A raw mid of 150 between two whole ticks was stored as 200.
C10_Witness ==
  /\ ValidBook /\ event.instrument = "FUTURE"
  /\ event.bid = 100 /\ event.ask = 200
  /\ midpointFuture = 200

\* An ETF snapshot was handled: the step of OrderBookMessageHandler on ETF.
EtfSnapshot == event'.kind = "book" /\ event'.instrument = "ETF"

\* C11 as claimed: an ETF snapshot handled while the stored future midpoint
\* is 0 sends no insert and no cancel and leaves both slots and both
\* membership sets as they were.
C11_NoSignalOnZeroFuture ==
  [][(EtfSnapshot /\ midpointFuture' = 0) =>
       /\ InsertsIn(sent') = {}
       /\ CancelsIn(sent') = {}
       /\ UNCHANGED orderState]_vars

\* The ratio of the two stored midpoints against the thresholds 0.995 =
\* 199/200 and 1.005 = 201/200, in exact arithmetic; a positive ETF midpoint
\* over a future midpoint of 0 is +infinity, above every threshold.
BelowBuy(etf, fut) == fut > 0 /\ 200 * etf < 199 * fut
AboveSell(etf, fut) == (fut = 0 /\ etf > 0) \/ (fut > 0 /\ 200 * etf > 201 * fut)
InsertCount(cmds, side) ==
  Cardinality({i \in DOMAIN cmds : cmds[i].cmd = "insert" /\ cmds[i].side = side})

AtLimitNoBuy ==
  /\ event.kind = "book" /\ event.instrument = "ETF"
  /\ midpointETF = 198 /\ midpointFuture = 200
  /\ mBidId = 0 /\ mPosition = POSITION_LIMIT
  /\ sent = << >>

\* The lot size of the build and the lot size with its bonus.
LotSize == IF variant = "bollinger" THEN LOT_SIZE ELSE LOT_SIZE_DECAY
BoostedLotSize ==
  IF variant = "bollinger" THEN LOT_SIZE * BOLLINGER_BONUS
  ELSE LOT_SIZE_DECAY * DECAY_BONUS
BuysIn(cmds) == {c \in InsertsIn(cmds) : c.side = "BUY"}
SellsIn(cmds) == {c \in InsertsIn(cmds) : c.side = "SELL"}

\* An ETF snapshot left the stored midpoints etf and fut and found the bid
\* slot empty and the position below the limit.
BuyScenario(etf, fut) ==
  /\ EtfSnapshot
  /\ midpointETF' = etf /\ midpointFuture' = fut
  /\ mBidId = 0 /\ mPosition < POSITION_LIMIT

C14_VolumeClamped ==
  [][\A c \in InsertsIn(sent') :
       LET v == c.volume
           p == mPosition
       IN /\ v >= 1 /\ v <= BoostedLotSize
          /\ c.side = "BUY" => p + v <= POSITION_LIMIT
          /\ c.side = "SELL" => p - v >= -POSITION_LIMIT
          /\ \/ v \in {LotSize, BoostedLotSize}
             \/ c.side = "BUY" /\ p + v = POSITION_LIMIT
             \/ c.side = "SELL" /\ p - v = -POSITION_LIMIT
          /\ (c.side = "BUY" /\ p = 90 /\ LotSize = 20) => v = 10]_vars

\* A BUY of 10 lots was sent at position 90 by the build with lot size 20.
C14_Witness ==
  /\ variant = "decay" /\ mPosition = 90
  /\ event.kind = "book"
  /\ \E c \in BuysIn(sent) : c.volume = 10

\* A SELL of 10 lots was sent at position -90.
SellClampedAtMinus90 ==
  /\ mPosition = -90
  /\ event.kind = "book"
  /\ \E c \in SellsIn(sent) : c.volume = 10

\* C15: an ETF snapshot sends a cancel for the id x iff x is not 0 and x is
\* the id of the ask slot while the ratio is <= 1, or the id of the bid slot
\* while the ratio is >= 1 (at a ratio of 1 whichever order rests is
\* cancelled); a FUTURE snapshot sends no cancel, and no cancel carries the
\* id 0.  A positive ETF midpoint over a future midpoint of 0 is +infinity.
C15_CancelRule ==
  [][/\ event'.kind = "book" =>
          LET etf == midpointETF'
              fut == midpointFuture'
              le1 == fut > 0 /\ etf <= fut
              ge1 == (fut > 0 /\ etf >= fut) \/ (fut = 0 /\ etf > 0)
          IN IF event'.instrument = "ETF"
             THEN \A x \in Ids :
                    x \in CancelsIn(sent') <=>
                      /\ x # 0
                      /\ (x = mAskId /\ le1) \/ (x = mBidId /\ ge1)
             ELSE CancelsIn(sent') = {}
     /\ 0 \notin CancelsIn(sent')
     /\ CancelsIn(sent') \subseteq Ids]_vars

\* A snapshot with a ratio of exactly 1 cancelled the resting ask, and the
\* empty bid slot gave no cancel for the id 0.
C15_Witness ==
  /\ event.kind = "book" /\ event.instrument = "ETF"
  /\ midpointETF = 200 /\ midpointFuture = 200
  /\ mAsks # {} /\ CancelsIn(sent) = mAsks
  /\ mAskId = 0 /\ mBidId = 0

\* C16: the order-book, trade-tick, order-status, error, hedge-filled and
\* disconnect handlers leave mPosition as it was, and so does an
\* order-filled for an id that is in neither membership set, which sends no
\* hedge and takes no id.
C16_PositionFrame ==
  [][/\ event'.kind \in {"book", "ticks", "status", "error", "hedgeFilled",
                          "disconnect"} =>
          mPosition' = mPosition
     /\ (event'.kind = "filled" /\ event'.id \notin mAsks \cup mBids) =>
          /\ mPosition' = mPosition
          /\ HedgesIn(sent') = {}
          /\ mNextMessageId' = mNextMessageId]_vars

\* A fill for an id the engine issued but tracks in neither set arrived
\* while the engine held a position, and nothing was sent.
C16_Witness ==
  /\ event.kind = "filled" /\ event.id # 0
  /\ event.id \notin mAsks \cup mBids
  /\ mPosition # 0
  /\ sent = << >>

\* The ids of the insert and hedge commands of cmds, in the order sent.
RECURSIVE IssuedIn(_)
IssuedIn(cmds) ==
  IF cmds = << >> THEN << >>
  ELSE (IF cmds[1].cmd \in {"insert", "hedge"} THEN <<cmds[1].id>> ELSE << >>)
       \o IssuedIn(Tail(cmds))

\* C17: the ids of insert and hedge commands are non-zero, pairwise distinct
\* and strictly increasing in the order sent: the ids a handler sends
\* increase, none is below the counter the handler found, so above every id
\* sent before, all are below the counter it leaves, and the counter starts
\* at 1 and never decreases.
C17_FreshIds ==
  [][LET new == IssuedIn(sent')
     IN /\ mNextMessageId >= 1
        /\ mNextMessageId' = mNextMessageId + Len(new)
        /\ \A i \in DOMAIN new :
             /\ new[i] # 0
             /\ new[i] >= mNextMessageId
             /\ new[i] < mNextMessageId'
        /\ \A i, j \in DOMAIN new : i < j => new[i] < new[j]]_vars

\* A tracked order was filled and its hedge carries a later id than the
\* order, the latest id issued.
C17_Witness ==
  /\ event.kind = "filled" /\ event.tracked # "none"
  /\ \E h \in HedgesIn(sent) :
       /\ h.id > event.id
       /\ h.id = mNextMessageId - 1
       /\ h.id >= 3

\* A fill arrived for an order of the given side whose cancel was sent and
\* whose remaining-0 status has not been handled: the id is still in the
\* membership set of its side, and no longer in the slot.
FillAfterCancel(side) ==
  /\ event'.kind = "filled"
  /\ event'.tracked = side /\ event'.slot = "none"

\* C18: a fill that arrives after the cancel of its order was sent and
\* before a status with remaining volume 0 is attributed to the side of the
\* order: the position moves by the filled volume, up for a bid and down
\* for an ask, and one hedge of that volume goes out on the opposite side.
\* A status with remaining volume 0 takes the id out of both sets, no id
\* issued before comes back into a set, and a fill for an id in neither set
\* changes nothing and sends nothing.
C18_CancelFillRace ==
  [][LET id == event'.id
         v == event'.volume
     IN /\ FillAfterCancel("bid") =>
             /\ mPosition' = mPosition + v
             /\ Len(sent') = 1
             /\ \A h \in HedgesIn(sent') : h.side = "SELL" /\ h.volume = v
             /\ HedgesIn(sent') # {}
        /\ FillAfterCancel("ask") =>
             /\ mPosition' = mPosition - v
             /\ Len(sent') = 1
             /\ \A h \in HedgesIn(sent') : h.side = "BUY" /\ h.volume = v
             /\ HedgesIn(sent') # {}
        /\ (event'.kind = "status" /\ v = 0) => id \notin mAsks' \cup mBids'
        /\ \A x \in (mAsks' \cup mBids') \ (mAsks \cup mBids) :
             x >= mNextMessageId
        /\ (event'.kind = "filled" /\ id \notin mAsks \cup mBids) =>
             /\ sent' = << >>
             /\ UNCHANGED <<orderState, mPosition, mNextMessageId, midpoints,
                            signalState>>]_vars

\* The bid 1 was cancelled, then filled whole: the position is the filled
\* volume and the SELL hedge went out, while the bid slot is empty.
C18_Witness ==
  /\ event.kind = "filled" /\ event.id = 1
  /\ event.tracked = "bid" /\ event.slot = "none"
  /\ mBidId = 0 /\ 1 \in mBids
  /\ mPosition = event.volume /\ mPosition >= LOT_SIZE
  /\ \E h \in HedgesIn(sent) : h.side = "SELL" /\ h.volume = event.volume

\* C19: a non-zero id in the bid slot is in the bid set and not in the ask
\* set, a non-zero id in the ask slot is in the ask set and not in the bid
\* set, the two sets are disjoint, and the two slots never hold the same
\* non-zero id.
C19_SlotMembership ==
  /\ mBidId # 0 => mBidId \in mBids /\ mBidId \notin mAsks
  /\ mAskId # 0 => mAskId \in mAsks /\ mAskId \notin mBids
  /\ mAsks \cap mBids = {}
  /\ mBidId # 0 => mBidId # mAskId

\* A bid rests in its slot while a cancelled ask is still in the ask set and
\* an earlier bid in the bid set.
C19_Witness ==
  /\ mBidId # 0 /\ mBidId \in mBids
  /\ mAskId = 0 /\ mAsks # {}
  /\ mBids # {mBidId}

\* The window holds at most WINDOW_SIZE samples, in the order they came and
\* with none missing in between, and a sample has left it only if it is
\* full: what was evicted are the oldest samples.
WindowIsLatest ==
  /\ Len(ratios) <= WINDOW_SIZE
  /\ \A i \in 1..(Len(ratios) - 1) : ratios[i + 1] = ratios[i] + 1
  /\ (ratios # << >> /\ ratios[1] > 1) => Len(ratios) = WINDOW_SIZE

BonusAfterWarmUp ==
  /\ variant = "bollinger"
  /\ Len(ratios) = WINDOW_SIZE /\ ratios[1] = 3
  /\ \E c \in InsertsIn(sent) : c.volume = LOT_SIZE * BOLLINGER_BONUS

\* C21 as claimed: in the decaying-extremum build every ETF snapshot,
\* whether or not it inserts an order, decays maxRatio when maxRatio is at
\* least DECAY_SELL_LIMIT and the ratio does not exceed it, and decays
\* minRatio when minRatio is at most DECAY_BUY_LIMIT and the ratio does not
\* undercut it.
C21_DecayEachEvaluation ==
  [][(variant = "decay" /\ EtfSnapshot) =>
       LET r == Ratio(midpointETF', midpointFuture')
       IN /\ (IsFinite(maxRatio) /\ GeSellLimit(maxRatio) /\ ~GtMax(r, maxRatio)) =>
               /\ maxRatio' = DecayMax(maxRatio)
               /\ maxRatio' # maxRatio
          /\ (IsFinite(minRatio) /\ LeBuyLimit(minRatio) /\ ~LtMin(r, minRatio)) =>
               /\ minRatio' = DecayMin(minRatio)
               /\ minRatio' # minRatio]_vars

====
